---- MODULE Spec2Model ----
(***************************************************************************)
(* Model of the task store of console-todo/todo_app.py: the classes Task   *)
(* and TodoManager, with the storage file as part of the state.            *)
(*                                                                         *)
(* Text values (title, description) are sequences of one-character         *)
(* strings, so that str.strip() is computed and not assumed.  An optional  *)
(* argument is <<>> for None and <<v>> for a supplied value v.             *)
(***************************************************************************)
EXTENDS Integers, Sequences, FiniteSets, TLC

\* ------------------------------------------------------------------ bounds
MaxTasks == 2    \* add_task is only called while fewer tasks are stored
MaxId == 2       \* add_task is only called while next_id <= MaxId
MaxFailures == 1 \* writes of the storage file that fail in one run

\* ------------------------------------------------------------ input values
TitleInputs == {<<>>, <<" ">>, <<" ", "a">>}
DescInputs == {<<"d", " ">>}
\* the arguments of update_task: <<>> for an argument left at None
Update(title, description, status) ==
    [title |-> title, description |-> description, status |-> status]
UpdateInputs ==
    { Update(<<>>, <<>>, <<>>),
      Update(<<<<" ">>>>, <<>>, <<>>),
      Update(<<<<" ", "a">>>>, <<>>, <<>>),
      Update(<<>>, <<<<"d", " ">>>>, <<>>),
      Update(<<>>, <<>>, <<"pending">>),
      Update(<<>>, <<>>, <<"completed">>),
      Update(<<>>, <<>>, <<"bogus">>),
      Update(<<<<" ", "a">>>>, <<<<"d", " ">>>>, <<"completed">>),
      Update(<<<<" ", "a">>>>, <<<<"d", " ">>>>, <<"bogus">>) }
Times == {"T1"}
LoadTimes == {"T1", "T2"}
Ids == 1..MaxId
FilterInputs == {<<>>, <<"">>, <<"pending">>, <<"completed">>}
WriteOutcomes == {"ok", "open_failed", "write_failed"}
Fields == {"id", "title", "description", "status", "created_at"}

\* ------------------------------------------------------------- str.strip()
RECURSIVE LStrip(_)
LStrip(s) == IF s # <<>> /\ Head(s) = " " THEN LStrip(Tail(s)) ELSE s

RECURSIVE RStrip(_)
RStrip(s) ==
    IF s # <<>> /\ s[Len(s)] = " " THEN RStrip(SubSeq(s, 1, Len(s) - 1)) ELSE s

\* str.strip() left out
NoStrip(s) == s

Strip(s) == RStrip(LStrip(s))

\* -------------------------------------------------------------------- Task
\* Task.__init__: created_at is stamped with the clock reading `now`.
NewTask(task_id, title, description, status, now) ==
    [id |-> task_id, title |-> title, description |-> description,
     status |-> status, created_at |-> now]

\* A JSON value found in the "tasks" array of the file: an object with the
\* keys `keys`, or a value of another type.
ObjectEntry(keys, id, title, description, status, created_at) ==
    [type |-> "object", keys |-> keys, id |-> id, title |-> title,
     description |-> description, status |-> status, created_at |-> created_at]

NumberEntry ==
    [type |-> "number", keys |-> {}, id |-> 0, title |-> <<>>,
     description |-> <<>>, status |-> "", created_at |-> ""]

\* Task.to_dict
to_dict(task) ==
    ObjectEntry(Fields, task.id, task.title, task.description, task.status,
                task.created_at)

\* Task.from_dict without the restore of created_at
from_dict_stamped(data, now) ==
    NewTask(data.id, data.title, data.description, data.status, now)

\* Task.from_dict: the constructor stamps `now`, then created_at is restored.
from_dict(data, now) ==
    [NewTask(data.id, data.title, data.description, data.status, now)
        EXCEPT !.created_at = data.created_at]

\* The exception data["id"], data["title"], ... raises in from_dict.
from_dict_exception(data) ==
    IF data.type # "object" THEN "TypeError"
    ELSE IF ~(Fields \subseteq data.keys) THEN "KeyError"
    ELSE "none"

\* ------------------------------------------------------------ storage file
AbsentFile == [kind |-> "absent", keys |-> {}, tasks |-> <<>>, next_id |-> 0]
\* text that is not a JSON document, an interrupted write included
GarbageFile == [kind |-> "garbage", keys |-> {}, tasks |-> <<>>, next_id |-> 0]
\* a JSON document whose top level is an array
ArrayFile == [kind |-> "array", keys |-> {}, tasks |-> <<>>, next_id |-> 0]
\* a JSON document whose top level is an object with the keys `keys`
ObjectFile(keys, entries, n) ==
    [kind |-> "object", keys |-> keys,
     tasks |-> IF "tasks" \in keys THEN entries ELSE <<>>,
     next_id |-> IF "next_id" \in keys THEN n ELSE 0]

\* a document built from all the tasks but the last one
SaveDataButLast(ts, n) ==
    ObjectFile({"tasks", "next_id"},
               [i \in 1..(Len(ts) - 1) |-> to_dict(ts[i])], n)

\* the document save_tasks builds and dumps
SaveData(ts, n) ==
    ObjectFile({"tasks", "next_id"}, [i \in 1..Len(ts) |-> to_dict(ts[i])], n)

\* the file after save_tasks, by the outcome of open(..., 'w') and json.dump
FileAfterSave(f, ts, n, w) ==
    CASE w = "ok" -> SaveData(ts, n)
      [] w = "open_failed" -> f
      [] w = "write_failed" -> GarbageFile

\* what save_tasks raises to its caller: `except Exception` catches it all
save_tasks_raises(w) == "none"

\* what save_tasks prints
save_tasks_printed(w) == IF w = "ok" THEN "none" ELSE "save_error"

\* data.get("tasks", []) and data.get("next_id", 1)
DataGetTasks(f) == IF "tasks" \in f.keys THEN f.tasks ELSE <<>>
DataGetNextId(f) == IF "next_id" \in f.keys THEN f.next_id ELSE 1

RECURSIVE FirstException(_)
FirstException(entries) ==
    IF entries = <<>> THEN "none"
    ELSE IF from_dict_exception(Head(entries)) # "none"
         THEN from_dict_exception(Head(entries))
         ELSE FirstException(Tail(entries))

\* the exception raised inside the try block of load_tasks
LoadException(f) ==
    CASE f.kind = "garbage" -> "JSONDecodeError"
      [] f.kind = "array" -> "AttributeError"
      [] OTHER -> FirstException(DataGetTasks(f))

Caught == {"JSONDecodeError", "KeyError"}

\* load_tasks on a store holding (ts, n): the store after it, what it raises
\* and what it prints.
load_tasks(f, ts, n, now) ==
    IF f.kind = "absent"
    THEN [tasks |-> <<>>, next_id |-> 1, err |-> "none", printed |-> "none"]
    ELSE LET exc == LoadException(f) IN
         IF exc = "none"
         THEN [tasks |-> [i \in 1..Len(DataGetTasks(f)) |->
                             from_dict(DataGetTasks(f)[i], now)],
               next_id |-> DataGetNextId(f),
               err |-> "none", printed |-> "none"]
         ELSE IF exc \in Caught
         THEN [tasks |-> <<>>, next_id |-> 1, err |-> "none",
               printed |-> "load_error"]
         ELSE [tasks |-> ts, next_id |-> n, err |-> exc, printed |-> "none"]

\* ------------------------------------------------------------- TodoManager
VARIABLES
    tasks,      \* self.tasks: the sequence of Task
    next_id,    \* self.next_id
    file,       \* the content of self.storage_file
    op,         \* the last call made on the store
    err,        \* what that call raised to its caller, "none" if it returned
    ret,        \* what it returned: <<>> for None, else a sequence of Task
    io,         \* the outcome of the write it attempted, "none" if no write
    printed,    \* what it printed on the console
    assigned,   \* the ids returned by the successful add_task calls, in order
    failures,   \* the number of writes that have failed
    args        \* the arguments that call was made with

vars == <<tasks, next_id, file, op, err, ret, io, printed, assigned, failures,
          args>>

\* the arguments of a call: 0 and <<>> stand for the ones it does not take
Call(task_id, title, description, status) ==
    [task_id |-> task_id, title |-> title, description |-> description,
     status |-> status]
NoArgs == Call(0, <<>>, <<>>, <<>>)

store == <<tasks, next_id, file>>

EmptyTitleError == "ValueError: Task title cannot be empty"
NotFoundError == "ValueError: Task with ID not found"
StatusError == "ValueError: Status must be 'pending' or 'completed'"

\* get_task_by_id that hands back the last task looked at when none matches
get_task_by_id_last(ts, task_id) ==
    LET hits == {i \in 1..Len(ts) : ts[i].id = task_id} IN
    IF hits = {} THEN Len(ts)
    ELSE CHOOSE i \in hits : \A j \in hits : i <= j

\* get_task_by_id: the position of the first task with that id, 0 for None
get_task_by_id(ts, task_id) ==
    LET hits == {i \in 1..Len(ts) : ts[i].id = task_id} IN
    IF hits = {} THEN 0
    ELSE CHOOSE i \in hits : \A j \in hits : i <= j

\* `not title.strip()` without the strip
TitleIsEmptyUnstripped(title) == title = <<>>

\* `not title.strip()` in add_task
TitleIsEmpty(title) == Strip(title) = <<>>

\* `self.next_id += 1` left out
KeepNextId(n) == n

\* `self.next_id += 1`
IncrementNextId(n) == n + 1

\* list.remove of the task at position i
RemoveAt(ts, i) == SubSeq(ts, 1, i - 1) \o SubSeq(ts, i + 1, Len(ts))

\* the caller is at the menu, between two calls on the store
AtMenu == op = "menu"

\* the effects of the call self.save_tasks() that ends a mutating method
Save ==
    \E w \in WriteOutcomes :
        /\ w # "ok" => failures < MaxFailures
        /\ failures' = IF w = "ok" THEN failures ELSE failures + 1
        /\ file' = FileAfterSave(file, tasks', next_id', w)
        /\ io' = w
        /\ err' = save_tasks_raises(w)
        /\ printed' = save_tasks_printed(w)

\* a method that raises ValueError before it changes anything
Reject(e) ==
    /\ err' = e
    /\ ret' = <<>>
    /\ io' = "none"
    /\ printed' = "none"
    /\ UNCHANGED <<tasks, next_id, file, assigned, failures>>

\* TodoManager.add_task
add_task(title, description, now) ==
    /\ AtMenu
    /\ Len(tasks) < MaxTasks
    /\ next_id <= MaxId
    /\ op' = "add"
    /\ args' = Call(0, <<title>>, <<description>>, <<>>)
    /\ IF TitleIsEmpty(title)
       THEN Reject(EmptyTitleError)
       ELSE LET task == NewTask(next_id, Strip(title), Strip(description),
                                "pending", now) IN
            /\ tasks' = Append(tasks, task)
            /\ next_id' = IncrementNextId(next_id)
            /\ Save
            /\ ret' = <<task>>
            /\ assigned' = Append(assigned, task.id)

\* the assignments of update_task with `description or ""` for the description
updated_clearing(task, title, description, status) ==
    LET t1 == IF title # <<>>
              THEN [task EXCEPT !.title = Strip(title[1])]
              ELSE task
        t2 == IF description # <<>>
              THEN [t1 EXCEPT !.description = Strip(description[1])]
              ELSE [t1 EXCEPT !.description = <<>>]
    IN  IF status # <<>> /\ status[1] \in {"pending", "completed"}
        THEN [t2 EXCEPT !.status = status[1]]
        ELSE t2

\* the task after the assignments of update_task: each supplied field in
\* turn, the status only when it is valid
updated(task, title, description, status) ==
    LET t1 == IF title # <<>>
              THEN [task EXCEPT !.title = Strip(title[1])]
              ELSE task
        t2 == IF description # <<>>
              THEN [t1 EXCEPT !.description = Strip(description[1])]
              ELSE t1
    IN  IF status # <<>> /\ status[1] \in {"pending", "completed"}
        THEN [t2 EXCEPT !.status = status[1]]
        ELSE t2

\* TodoManager.update_task
update_task(task_id, title, description, status) ==
    /\ AtMenu
    /\ op' = "update"
    /\ args' = Call(task_id, title, description, status)
    /\ LET i == get_task_by_id(tasks, task_id) IN
       IF i = 0
       THEN Reject(NotFoundError)
       ELSE LET bad == status # <<>> /\ status[1] \notin {"pending", "completed"}
                t3 == updated(tasks[i], title, description, status)
            IN
            /\ tasks' = [tasks EXCEPT ![i] = t3]
            /\ UNCHANGED <<next_id, assigned>>
            /\ ret' = <<>>
            /\ IF bad
               THEN /\ err' = StatusError
                    /\ io' = "none"
                    /\ printed' = "none"
                    /\ UNCHANGED <<file, failures>>
               ELSE Save

\* TodoManager.delete_task
delete_task(task_id) ==
    /\ AtMenu
    /\ op' = "delete"
    /\ args' = Call(task_id, <<>>, <<>>, <<>>)
    /\ LET i == get_task_by_id(tasks, task_id) IN
       IF i = 0
       THEN Reject(NotFoundError)
       ELSE /\ tasks' = RemoveAt(tasks, i)
            /\ UNCHANGED <<next_id, assigned>>
            /\ ret' = <<>>
            /\ Save

\* `"completed" if task.status == "pending" else "pending"`
toggled(status) == IF status = "pending" THEN "completed" ELSE "pending"

\* TodoManager.toggle_task_status
toggle_task_status(task_id) ==
    /\ AtMenu
    /\ op' = "toggle"
    /\ args' = Call(task_id, <<>>, <<>>, <<>>)
    /\ LET i == get_task_by_id(tasks, task_id) IN
       IF i = 0
       THEN Reject(NotFoundError)
       ELSE /\ tasks' = [tasks EXCEPT ![i].status = toggled(tasks[i].status)]
            /\ UNCHANGED <<next_id, assigned>>
            /\ ret' = <<>>
            /\ Save

\* list_tasks that ignores its filter
list_result_all(ts, status_filter) == ts

\* what list_tasks returns: `if status_filter:` is false for None and for ""
list_result(ts, status_filter) ==
    IF status_filter # <<>> /\ status_filter[1] # ""
    THEN SelectSeq(ts, LAMBDA t : t.status = status_filter[1])
    ELSE ts

\* TodoManager.list_tasks
list_tasks(status_filter) ==
    /\ AtMenu
    /\ op' = "list"
    /\ args' = Call(0, <<>>, <<>>, status_filter)
    /\ ret' = list_result(tasks, status_filter)
    /\ err' = "none"
    /\ io' = "none"
    /\ printed' = "none"
    /\ UNCHANGED <<tasks, next_id, file, assigned, failures>>

\* TodoManager.get_task_by_id called by the presentation layer
find_by_id(task_id) ==
    /\ AtMenu
    /\ op' = "get"
    /\ args' = Call(task_id, <<>>, <<>>, <<>>)
    /\ ret' = LET i == get_task_by_id(tasks, task_id) IN
              IF i = 0 THEN <<>> ELSE <<tasks[i]>>
    /\ err' = "none"
    /\ io' = "none"
    /\ printed' = "none"
    /\ UNCHANGED <<tasks, next_id, file, assigned, failures>>

\* ----------------------------------------------- files found at start-up
GoodEntry(id, status) ==
    ObjectEntry(Fields, id, <<"b">>, <<>>, status, "T0")

InitFiles ==
    { AbsentFile, GarbageFile, ArrayFile,
      ObjectFile({}, <<>>, 0),
      ObjectFile({"tasks", "next_id"}, <<>>, 1),
      ObjectFile({"tasks", "next_id"}, <<GoodEntry(1, "pending")>>, 2),
      ObjectFile({"tasks"}, <<GoodEntry(1, "archived")>>, 0),
      ObjectFile({"tasks", "next_id"},
                 <<GoodEntry(1, "pending"),
                   ObjectEntry(Fields \ {"status"}, 2, <<"b">>, <<>>, "", "T0")>>,
                 3),
      ObjectFile({"tasks", "next_id"},
                 <<GoodEntry(1, "pending"), NumberEntry>>, 3) }

\* TodoManager.__init__: tasks = [], next_id = 1, then load_tasks()
Init ==
    /\ file \in InitFiles
    /\ \E now \in Times :
          LET r == load_tasks(file, <<>>, 1, now) IN
          /\ tasks = r.tasks
          /\ next_id = r.next_id
          /\ err = r.err
          /\ printed = r.printed
    /\ op = "init"
    /\ args = NoArgs
    /\ ret = <<>>
    /\ io = "none"
    /\ assigned = <<>>
    /\ failures = 0

\* main: the result of the call is shown and the loop is back at the menu;
\* the ValueError of a store method is caught by the caller, any other
\* exception ends the process.
main_loop ==
    /\ op # "menu"
    /\ err \in {"none", EmptyTitleError, NotFoundError, StatusError}
    /\ op' = "menu"
    /\ args' = NoArgs
    /\ err' = "none"
    /\ ret' = <<>>
    /\ io' = "none"
    /\ printed' = "none"
    /\ UNCHANGED <<tasks, next_id, file, assigned, failures>>

Next ==
    \/ main_loop
    \/ \E title \in TitleInputs, description \in DescInputs, now \in Times :
          add_task(title, description, now)
    \/ \E task_id \in Ids, u \in UpdateInputs :
          update_task(task_id, u.title, u.description, u.status)
    \/ \E task_id \in Ids : delete_task(task_id)
    \/ \E task_id \in Ids : toggle_task_status(task_id)
    \/ \E status_filter \in FilterInputs : list_tasks(status_filter)
    \/ \E task_id \in Ids : find_by_id(task_id)

Spec == Init /\ [][Next]_vars

\* --------------------------------------------- save_tasks then load_tasks
\* TodoManager.save_tasks called on its own
save_tasks ==
    /\ AtMenu
    /\ op' = "save"
    /\ args' = NoArgs
    /\ ret' = <<>>
    /\ UNCHANGED <<tasks, next_id, assigned>>
    /\ Save

\* TodoManager.load_tasks called again on the store, after a save
load_tasks_again ==
    /\ op = "save"
    /\ op' = "load"
    /\ args' = NoArgs
    /\ \E now \in LoadTimes :
          LET r == load_tasks(file, tasks, next_id, now) IN
          /\ tasks' = r.tasks
          /\ next_id' = r.next_id
          /\ err' = r.err
          /\ printed' = r.printed
    /\ ret' = <<>>
    /\ io' = "none"
    /\ UNCHANGED <<file, assigned, failures>>

\* store states of any shape: ids in any order and repeated, a blank title,
\* a status outside the enum, a next_id below the ids
AnyTasks ==
    [id : 1..2, title : {<<>>, <<"a">>}, description : {<<"d">>},
     status : {"pending", "archived"}, created_at : {"T0"}]

AnyTaskSeqs == UNION {[1..n -> AnyTasks] : n \in 0..MaxTasks}

InitRT ==
    /\ tasks \in AnyTaskSeqs
    /\ next_id \in 0..MaxId
    /\ file \in {AbsentFile, GarbageFile, SaveData(<<>>, 1)}
    /\ op = "menu"
    /\ args = NoArgs
    /\ err = "none"
    /\ ret = <<>>
    /\ io = "none"
    /\ printed = "none"
    /\ assigned = <<>>
    /\ failures = 0

NextRT ==
    \/ save_tasks
    \/ load_tasks_again

SpecRT == InitRT /\ [][NextRT]_vars

\* ================================================================== claims
Mutating == {"add", "update", "delete", "toggle"}
FailedWrites == {"open_failed", "write_failed"}
IdsOf(ts) == {ts[i].id : i \in 1..Len(ts)}

\* C1: the ids returned by successive successful add_task calls are strictly
\* increasing, so none is returned twice, whatever deletes, updates and
\* toggles happen in between.
C1_IdsStrictlyIncreasing ==
    \A i, j \in 1..Len(assigned) : i < j => assigned[i] < assigned[j]

\* two ids were assigned and the task of the first one has been deleted
C1_Witness ==
    /\ Len(assigned) >= 2
    /\ assigned[1] \notin IdsOf(tasks)
    /\ op = "add"

\* C2: next_id is strictly greater than the id of every task in the store
\* and than every id assigned so far.
C2_NextIdAboveAllIds ==
    /\ \A i \in 1..Len(tasks) : tasks[i].id < next_id
    /\ \A i \in 1..Len(assigned) : assigned[i] < next_id

\* C3: an update_task call that raises a validation error leaves every task
\* and the storage file as they were.
C3_FailedUpdateChangesNothing ==
    [][(op' = "update" /\ err' = StatusError)
        => (tasks' = tasks /\ next_id' = next_id /\ file' = file)]_vars

\* C4: a task that a successful add_task or update_task call created or
\* changed has a title that is not empty and not whitespace-only.
C4_TitleNeverBlank ==
    [][(op' \in {"add", "update"} /\ err' = "none")
        => \A i \in 1..Len(tasks') :
              (i > Len(tasks) \/ tasks'[i] # tasks[i])
                  => Strip(tasks'[i].title) # <<>>]_vars

\* C5: when the write of the storage file fails inside a mutating call, the
\* call reports the failure to its caller.
C5_SaveFailureReported ==
    (op \in Mutating /\ io \in FailedWrites) => err # "none"

\* C6: after a mutating call that returns without error the storage file
\* holds the in-memory state: the same tasks in the same order and next_id.
C6_FileEqualsMemory ==
    (op \in Mutating /\ err = "none") => file = SaveData(tasks, next_id)

\* C7: save_tasks whose write completes, followed by load_tasks on the same
\* file, gives back the same tasks in the same order, with the same five
\* fields each, and the same next_id.
C7_RoundTrip ==
    [][(op = "save" /\ io = "ok" /\ op' = "load")
        => (tasks' = tasks /\ next_id' = next_id /\ err' = "none")]_vars

\* two tasks out of id order came back from a file that save_tasks wrote
C7_Witness ==
    /\ op = "load"
    /\ Len(tasks) = 2
    /\ tasks[1].id > tasks[2].id
    /\ tasks[2].status = "archived"
    /\ next_id = 0
    /\ file = SaveData(tasks, next_id)

\* a file that is missing, unparsable or without the expected structure
Unusable(f) ==
    \/ f.kind \in {"absent", "garbage", "array"}
    \/ \E i \in 1..Len(f.tasks) :
          f.tasks[i].type # "object" \/ ~(Fields \subseteq f.tasks[i].keys)

\* C8: constructing the store on a missing, unparsable or ill-structured
\* file gives the empty store with next_id = 1 and raises nothing.
C8_LoadFallsBack ==
    (op = "init" /\ Unusable(file))
        => (tasks = <<>> /\ next_id = 1 /\ err = "none")

\* C9: add_task with a title that is empty or whitespace-only raises the
\* validation error and leaves tasks, next_id and the storage file as they
\* were.
C9_EmptyTitleRejected ==
    [][\A title \in TitleInputs, description \in DescInputs, now \in Times :
          (/\ op' = "add"
           /\ Strip(title) = <<>>
           /\ add_task(title, description, now))
              => (err' = EmptyTitleError /\ UNCHANGED store)]_vars

\* an add_task call was rejected for its title on a store that holds a task
C9_Witness ==
    /\ op = "add"
    /\ err = EmptyTitleError
    /\ tasks # <<>>
    /\ file = SaveData(tasks, next_id)

\* some update_task call with this id
update_task_any(task_id) ==
    \E u \in UpdateInputs :
        update_task(task_id, u.title, u.description, u.status)

\* C10: update_task, delete_task and toggle_task_status with an id that no
\* task has raise the not-found error and leave tasks, next_id and the
\* storage file as they were.
C10_UnknownIdRejected ==
    [][\A task_id \in Ids \ IdsOf(tasks) :
          (\/ op' = "update" /\ update_task_any(task_id)
           \/ op' = "delete" /\ delete_task(task_id)
           \/ op' = "toggle" /\ toggle_task_status(task_id))
              => (err' = NotFoundError /\ UNCHANGED store)]_vars

\* a delete_task call was rejected on a store that holds another task
C10_Witness ==
    /\ op = "delete"
    /\ err = NotFoundError
    /\ tasks # <<>>

StatusEnum == {"pending", "completed"}

\* C11: every task in memory has status pending or completed, and so has
\* every task record of a file that the store has written.
C11_StatusInEnum ==
    /\ \A i \in 1..Len(tasks) : tasks[i].status \in StatusEnum
    /\ (op \in Mutating /\ io = "ok")
          => \A i \in 1..Len(file.tasks) : file.tasks[i].status \in StatusEnum

\* the position of the first task with this id, 0 when there is none
FirstWithId(ts, task_id) ==
    IF task_id \in IdsOf(ts)
    THEN CHOOSE i \in 1..Len(ts) :
            /\ ts[i].id = task_id
            /\ \A j \in 1..(i - 1) : ts[j].id # task_id
    ELSE 0

\* C12: after a successful toggle_task_status(id), a second toggle of the
\* same id gives back the tasks as they were before the first one: the task
\* has its original status, and every other field and every other task is
\* as before.
C12_ToggleTwiceRestores ==
    [][\A task_id \in IdsOf(tasks) :
          (op' = "toggle" /\ toggle_task_status(task_id))
              => LET i == FirstWithId(tasks', task_id) IN
                 /\ i # 0
                 /\ [tasks' EXCEPT ![i].status = toggled(tasks'[i].status)]
                       = tasks]_vars

\* ts without its element at position i
Without(ts, i) ==
    [j \in 1..(Len(ts) - 1) |-> IF j < i THEN ts[j] ELSE ts[j + 1]]

\* C13: after a successful delete_task(id) no task of the store has that id,
\* so find_by_id(id) finds nothing; exactly one task is gone and the others
\* are as before, in the same order.
C13_DeletedIdIsGone ==
    [][\A task_id \in IdsOf(tasks) :
          (op' = "delete" /\ delete_task(task_id))
              => /\ task_id \notin IdsOf(tasks')
                 /\ \E i \in 1..Len(tasks) :
                       tasks[i].id = task_id /\ tasks' = Without(tasks, i)]_vars

\* the tasks of ts with this status, in the order of ts
RECURSIVE WithStatus(_, _)
WithStatus(ts, status) ==
    IF ts = <<>> THEN <<>>
    ELSE IF Head(ts).status = status
         THEN <<Head(ts)>> \o WithStatus(Tail(ts), status)
         ELSE WithStatus(Tail(ts), status)

\* C14: list_tasks with a status as filter returns exactly the tasks with
\* that status, in the order of the store; without a filter it returns all
\* tasks; it changes neither tasks, next_id nor the storage file.
C14_ListReturnsMatching ==
    [][op' = "list"
        => /\ UNCHANGED store
           /\ \A f \in FilterInputs :
                 list_tasks(f)
                    => /\ f = <<>> => ret' = tasks
                       /\ (f # <<>> /\ f[1] # "")
                             => ret' = WithStatus(tasks, f[1])]_vars

\* a filter picked the second of two tasks and left the first out
C14_Witness ==
    /\ op = "list"
    /\ Len(tasks) = 2
    /\ tasks[1].status = "pending"
    /\ tasks[2].status = "completed"
    /\ ret = <<tasks[2]>>

\* t is s without the spaces at its two ends
IsTrimOf(t, s) ==
    /\ t # <<>>
    /\ t[1] # " "
    /\ t[Len(t)] # " "
    /\ \E a \in 1..Len(s) :
          /\ t = SubSeq(s, a, a + Len(t) - 1)
          /\ \A k \in 1..Len(s) : (k < a \/ k >= a + Len(t)) => s[k] = " "

\* C15: a successful add_task appends one task at the end, with id the
\* next_id of before, status pending and the trimmed title; it raises
\* next_id by one, leaves the other tasks as they were and returns the task.
C15_AddAppendsOne ==
    [][\A title \in TitleInputs, description \in DescInputs, now \in Times :
          (op' = "add" /\ err' = "none" /\ add_task(title, description, now))
              => /\ Len(tasks') = Len(tasks) + 1
                 /\ SubSeq(tasks', 1, Len(tasks)) = tasks
                 /\ tasks'[Len(tasks')].id = next_id
                 /\ tasks'[Len(tasks')].status = "pending"
                 /\ IsTrimOf(tasks'[Len(tasks')].title, title)
                 /\ next_id' = next_id + 1
                 /\ ret' = <<tasks'[Len(tasks')]>>]_vars

\* a second task was added behind a first one and returned with id 2
C15_Witness ==
    /\ op = "add"
    /\ err = "none"
    /\ Len(tasks) = 2
    /\ ret = <<tasks[2]>>
    /\ tasks[2].id = 2
    /\ tasks[2].title = <<"a">>
    /\ next_id = 3

\* C16: a successful toggle_task_status(id) turns pending into completed or
\* completed into pending, and returns a value, the new status, to its
\* caller (ret = <<>> stands for a return of None).
C16_ToggleFlipsAndReturns ==
    [][\A task_id \in IdsOf(tasks) :
          (op' = "toggle" /\ toggle_task_status(task_id))
              => LET i == FirstWithId(tasks, task_id) IN
                 /\ <<tasks[i].status, tasks'[i].status>>
                       \in {<<"pending", "completed">>, <<"completed", "pending">>}
                 /\ ret' # <<>>]_vars

\* C17: a successful update_task(id, ...) leaves the length of the store,
\* next_id and every task other than the first one with that id as they
\* were, and in that task the id, created_at and every field for which no
\* value was supplied.
C17_UpdateTouchesOnlySupplied ==
    [][(op' = "update" /\ err' = "none")
          => LET i == FirstWithId(tasks, args'.task_id) IN
             /\ i # 0
             /\ Len(tasks') = Len(tasks)
             /\ next_id' = next_id
             /\ \A j \in 1..Len(tasks) : j # i => tasks'[j] = tasks[j]
             /\ tasks'[i].id = tasks[i].id
             /\ tasks'[i].created_at = tasks[i].created_at
             /\ args'.title = <<>> => tasks'[i].title = tasks[i].title
             /\ args'.description = <<>>
                   => tasks'[i].description = tasks[i].description
             /\ args'.status = <<>> => tasks'[i].status = tasks[i].status]_vars

\* the title of the first of two tasks was replaced; its description, which
\* add_task never leaves empty, and its created_at are those of the file
C17_Witness ==
    /\ op = "update"
    /\ err = "none"
    /\ Len(tasks) = 2
    /\ tasks[1].title = <<"a">>
    /\ tasks[1].description = <<>>
    /\ tasks[1].status = "pending"
    /\ tasks[1].created_at = "T0"
    /\ tasks[2].id = 2
    /\ args = Call(1, <<<<" ", "a">>>>, <<>>, <<>>)

\* C18: save_tasks replaces the storage file atomically: after every step
\* the file holds either the complete content it had before the step or the
\* complete document of the new in-memory state, never anything else.
C18_SaveIsAtomic ==
    [][file' = file \/ file' = SaveData(tasks', next_id')]_vars

\* C19: every save writes the whole in-memory state: once a save had failed,
\* a later mutating call whose write completes leaves in the file an object
\* with exactly the keys tasks and next_id, next_id that of memory, and one
\* entry per task, in order, with the task's five fields.
FileHolds(f, ts, n) ==
    /\ f.kind = "object"
    /\ f.keys = {"tasks", "next_id"}
    /\ f.next_id = n
    /\ Len(f.tasks) = Len(ts)
    /\ \A i \in 1..Len(ts) :
          /\ f.tasks[i].type = "object"
          /\ f.tasks[i].keys = Fields
          /\ f.tasks[i].id = ts[i].id
          /\ f.tasks[i].title = ts[i].title
          /\ f.tasks[i].description = ts[i].description
          /\ f.tasks[i].status = ts[i].status
          /\ f.tasks[i].created_at = ts[i].created_at

C19_LaterSaveWritesAll ==
    (op \in Mutating /\ io = "ok") => FileHolds(file, tasks, next_id)

\* one task was added and toggled, one of the writes so far failed, and the
\* write of this toggle completed: the file has the task as memory has it
C19_Witness ==
    /\ op = "toggle"
    /\ io = "ok"
    /\ failures >= 1
    /\ assigned = <<1>>
    /\ Len(tasks) = 1
    /\ tasks[1].status = "completed"
    /\ FileHolds(file, tasks, next_id)

====
